---- MODULE Spec2Model ----
(***************************************************************************)
(* A model of the analytics pipeline: the cache-first Executor over the    *)
(* on-disk SnapshotCache (src/agents/executor.py, src/cache/               *)
(* snapshot_cache.py), the InsightAgent (src/agents/insight_agent.py) and  *)
(* the DashboardAgent (src/agents/dashboard_agent.py).                     *)
(*                                                                         *)
(* Python strings that the code takes apart (the sql text, the repr of the *)
(* parameters, every text that is HTML-escaped) are sequences of tokens: a *)
(* token is one special character or a run of harmless characters.         *)
(***************************************************************************)
EXTENDS Integers, Sequences, FiniteSets, TLC

VARIABLES
    settings,     \* Executor.settings: OFFLINE_ONLY, QUERY_TIMEOUT_SECONDS, MAX_RETURNED_ROWS
    files,        \* the cache directory: path -> file
    catalog,      \* DuckDBStore: name -> registered parquet path
    last,         \* the last operation: its inputs, its calls to collaborators, its result
    expect,       \* history: key -> the dataset of the last put not followed by a removal
    reqA, reqB,   \* two requests whose cache keys are compared
    keyA, keyB,   \* their cache keys, once computed
    dataset,      \* the df handed to the agents
    queryPlan,    \* the plan handed to the agents: metrics and visuals
    report,       \* what InsightAgent.generate returned or raised
    dash,         \* what DashboardAgent.build_dashboard returned or raised
    pc            \* the stage of the pipeline: "new", "generated", "built"

vars == <<settings, files, catalog, last, expect, reqA, reqB, keyA, keyB,
          dataset, queryPlan, report, dash, pc>>

execVars == <<settings, files, catalog, last, expect>>
keyVars == <<reqA, reqB, keyA, keyB>>
dashVars == <<dataset, queryPlan, report, dash, pc>>

\* ------------------------------------------------------------------ bounds

MaxSqlLen == 2
MaxParams == 2

\* ------------------------------------------------------------------ helpers

None == [tag |-> "None"]

Range(s) == {s[i] : i \in 1..Len(s)}

RECURSIVE Concat(_)
\* "".join(parts)
Concat(parts) == IF parts = <<>> THEN <<>> ELSE Head(parts) \o Concat(Tail(parts))

RECURSIVE JoinWith(_, _)
\* sep.join(parts)
JoinWith(sep, parts) ==
    IF parts = <<>> THEN <<>>
    ELSE IF Len(parts) = 1 THEN parts[1]
    ELSE parts[1] \o sep \o JoinWith(sep, Tail(parts))

Min(a, b) == IF a < b THEN a ELSE b

\* seq[:n]
Take(seq, n) == SubSeq(seq, 1, Min(n, Len(seq)))

\* All sequences over S of length lo..hi
SeqsOf(S, lo, hi) == UNION {[1..n -> S] : n \in lo..hi}

\* ------------------------------------------------------------------ Executor._cache_key

SqlTokens == {"SELECT 1", "|"}
Sqls == SeqsOf(SqlTokens, 0, MaxSqlLen)

ParamNames == {"a", "b"}
\* scalar parameter values: the int 1 and the str "1"
ParamValues == {[t |-> "int", v |-> "1"], [t |-> "str", v |-> "1"]}

\* dicts in insertion order: sequences of (name, value) with distinct names
ParamDicts ==
    {p \in SeqsOf(ParamNames \X ParamValues, 0, MaxParams) :
        \A i, j \in 1..Len(p) : i # j => p[i][1] # p[j][1]}

Requests == [sql : Sqls, params : ParamDicts]

\* the order of str on the parameter names
NameLess(a, b) == a = "a" /\ b = "b"

RECURSIVE InsertSorted(_, _)
InsertSorted(item, s) ==
    IF s = <<>> THEN <<item>>
    ELSE IF NameLess(item[1], Head(s)[1]) THEN <<item>> \o s
    ELSE <<Head(s)>> \o InsertSorted(item, Tail(s))

\* sorted() left out: the items in insertion order
Sorted_InsertionOrder(items) == items

RECURSIVE Sorted(_)
\* sorted(params.items()): names are unique, so the values are never compared
Sorted(items) ==
    IF items = <<>> THEN <<>>
    ELSE InsertSorted(items[Len(items)], Sorted(SubSeq(items, 1, Len(items) - 1)))

\* repr of a scalar: 1 -> 1, "1" -> '1'
ReprValue(v) == IF v.t = "str" THEN <<"'", v.v, "'">> ELSE <<v.v>>

ReprItem(it) == <<"(", "'", it[1], "'", ", ">> \o ReprValue(it[2]) \o <<")">>

\* repr of a list of tuples
ReprList(items) ==
    <<"[">> \o JoinWith(<<", ">>, [i \in 1..Len(items) |-> ReprItem(items[i])]) \o <<"]">>

\* hashlib.sha256(payload).hexdigest(): a digest is collision resistant, so it
\* is modelled as a tagged copy of what it digests
Sha256(payload) == [tag |-> "sha256", of |-> payload]

CacheKeyPayload(sql, params) == sql \o <<"|">> \o ReprList(Sorted(params))

_cache_key(sql, params) == Sha256(CacheKeyPayload(sql, params))

\* ------------------------------------------------------------------ SnapshotCache

\* The requests the executor is run on: the first two differ only in the
\* insertion order of their parameters.
P_a1 == <<"a", [t |-> "int", v |-> "1"]>>
P_b2 == <<"b", [t |-> "int", v |-> "2"]>>
P_b1s == <<"b", [t |-> "str", v |-> "1"]>>

ExecRequests ==
    { [sql |-> <<"SELECT 1">>, params |-> <<P_a1, P_b2>>],
      [sql |-> <<"SELECT 1">>, params |-> <<P_b2, P_a1>>],
      [sql |-> <<"SELECT 1">>, params |-> <<P_a1, P_b1s>>] }

Keys == {_cache_key(r.sql, r.params) : r \in ExecRequests}

\* the datasets run_sql_query may return; len(df) is nrows
Datasets == { [tag |-> "df", name |-> "empty", nrows |-> 0],
              [tag |-> "df", name |-> "total", nrows |-> 1],
              [tag |-> "df", name |-> "sales", nrows |-> 2] }

\* cache_dir / f"{cache_key}.parquet"
path_for_key(cache_key) == [tag |-> "path", dir |-> "cache_dir", stem |-> cache_key, suffix |-> ".parquet"]

Paths == {path_for_key(k) : k \in Keys}

NoFile == [tag |-> "nofile"]
Garbage == [tag |-> "garbage"]

\* df.to_parquet(path, index=False): the bytes written
ToParquet(df) == [tag |-> "parquet", magic |-> "PAR1", table |-> df]

\* pd.read_parquet(path): the dataset, or an exception
ReadParquet(f) ==
    IF f.tag = "parquet" /\ f.magic = "PAR1" THEN f.table ELSE [tag |-> "raise"]

Exists(fs, path) == fs[path] # NoFile

\* a damaged file read as an empty dataset instead of a miss
CacheGet_DamagedAsEmpty(fs, cache_key) ==
    LET path == path_for_key(cache_key) IN
    IF ~Exists(fs, path) THEN None
    ELSE LET r == ReadParquet(fs[path]) IN
         IF r.tag = "raise" THEN [tag |-> "df", name |-> "empty", nrows |-> 0] ELSE r

CacheGet(fs, cache_key) ==
    LET path == path_for_key(cache_key) IN
    IF ~Exists(fs, path) THEN None
    ELSE LET r == ReadParquet(fs[path]) IN
         IF r.tag = "raise" THEN None ELSE r

\* the directory after put; put returns the path
CachePut(fs, cache_key, df) ==
    [fs EXCEPT ![path_for_key(cache_key)] = ToParquet(df)]

\* delete: what it returns; unlinkFails tells whether path.unlink() raises
CacheDeleteResult(fs, cache_key, unlinkFails) ==
    LET path == path_for_key(cache_key) IN
    IF Exists(fs, path)
    THEN IF unlinkFails THEN [tag |-> "raise", exc |-> "OSError"]
         ELSE [tag |-> "return", value |-> TRUE]
    ELSE [tag |-> "return", value |-> FALSE]

\* delete that reports the removal but leaves the file
CacheDelete_KeepsFile(fs, cache_key, unlinkFails) == fs

\* delete: the directory it leaves
CacheDelete(fs, cache_key, unlinkFails) ==
    LET path == path_for_key(cache_key) IN
    IF Exists(fs, path) /\ ~unlinkFails THEN [fs EXCEPT ![path] = NoFile] ELSE fs

\* cache_dir.glob("*.parquet")
ClearAllGlob(fs) == {p \in DOMAIN fs : Exists(fs, p)}

\* clear_all: every *.parquet file is unlinked; an unlink that raises (the
\* paths in failing) is skipped and its file stays
CacheClearAll(fs, failing) ==
    [p \in DOMAIN fs |-> IF p \in ClearAllGlob(fs) /\ p \notin failing THEN NoFile ELSE fs[p]]

CacheClearAllCount(fs, failing) == Cardinality(ClearAllGlob(fs) \ failing)

\* ------------------------------------------------------------------ Executor.run

SettingsSet ==
    [OFFLINE_ONLY : BOOLEAN, QUERY_TIMEOUT_SECONDS : {30}, MAX_RETURNED_ROWS : {1000}]

\* what run_sql_query does when called: it returns a dataset or raises
DbErrors == { [tag |-> "raise", exc |-> "QueryTimeout"] }
DbOutcomes == Datasets \union DbErrors

\* DuckDBStore.register_parquet(name, path)
RegisterParquet(cat, name, path) == [cat EXCEPT ![name] = path]

\* the cache-hit branch without the catalog registration
RunHit_NoRegister(fs, cat, cache_key, cached) ==
    [ ret |-> [tag |-> "return", df |-> cached,
               meta |-> [cache_key |-> cache_key, cache_hit |-> TRUE,
                         rows |-> cached.nrows, mode |-> "cache"]],
      files |-> fs, catalog |-> cat, dbCalls |-> <<>>, puts |-> <<>>, regs |-> <<>> ]

\* The cache-hit branch of run: the snapshot is returned and registered.
\* (meta["seconds"] is wall-clock time and is left out.)
RunHit(fs, cat, cache_key, cached) ==
    LET parquet_path == path_for_key(cache_key) IN
    [ ret |-> [tag |-> "return", df |-> cached,
               meta |-> [cache_key |-> cache_key, cache_hit |-> TRUE,
                         rows |-> cached.nrows, mode |-> "cache"]],
      files |-> fs,
      catalog |-> RegisterParquet(cat, cache_key, parquet_path),
      dbCalls |-> <<>>,
      puts |-> <<>>,
      regs |-> <<[name |-> cache_key, path |-> parquet_path]>> ]

\* The OFFLINE_ONLY branch of run
RunOffline(fs, cat) ==
    [ ret |-> [tag |-> "raise", exc |-> "RuntimeError"],
      files |-> fs, catalog |-> cat, dbCalls |-> <<>>, puts |-> <<>>, regs |-> <<>> ]

\* the arguments run passes to run_sql_query
DbCall(sett, sql, params) ==
    [sql |-> sql, params |-> params,
     timeout_seconds |-> sett.QUERY_TIMEOUT_SECONDS,
     max_rows |-> sett.MAX_RETURNED_ROWS]

\* one call of run_sql_query, with what it did
DbCallDone(sett, sql, params, dbOutcome) ==
    [args |-> DbCall(sett, sql, params), outcome |-> dbOutcome]

\* the database branch with the cache write left out
RunDb_NoPut(sett, fs, cat, cache_key, sql, params, dbOutcome) ==
    LET call == DbCallDone(sett, sql, params, dbOutcome)
        parquet_path == path_for_key(cache_key)
    IN
    IF dbOutcome.tag = "raise"
    THEN [ ret |-> dbOutcome, files |-> fs, catalog |-> cat,
           dbCalls |-> <<call>>, puts |-> <<>>, regs |-> <<>> ]
    ELSE [ ret |-> [tag |-> "return", df |-> dbOutcome,
                    meta |-> [cache_key |-> cache_key, cache_hit |-> FALSE,
                              rows |-> dbOutcome.nrows, mode |-> "db"]],
           files |-> fs,
           catalog |-> RegisterParquet(cat, cache_key, parquet_path),
           dbCalls |-> <<call>>,
           puts |-> <<>>,
           regs |-> <<[name |-> cache_key, path |-> parquet_path]>> ]

\* the database branch with one retry after a failure
RunDb_Retry(sett, fs, cat, cache_key, sql, params, dbOutcome) ==
    LET call == DbCallDone(sett, sql, params, dbOutcome)
        parquet_path == path_for_key(cache_key)
    IN
    IF dbOutcome.tag = "raise"
    THEN [ ret |-> dbOutcome, files |-> fs, catalog |-> cat,
           dbCalls |-> <<call, call>>, puts |-> <<>>, regs |-> <<>> ]
    ELSE [ ret |-> [tag |-> "return", df |-> dbOutcome,
                    meta |-> [cache_key |-> cache_key, cache_hit |-> FALSE,
                              rows |-> dbOutcome.nrows, mode |-> "db"]],
           files |-> CachePut(fs, cache_key, dbOutcome),
           catalog |-> RegisterParquet(cat, cache_key, parquet_path),
           dbCalls |-> <<call>>,
           puts |-> <<[key |-> cache_key, df |-> dbOutcome]>>,
           regs |-> <<[name |-> cache_key, path |-> parquet_path]>> ]

\* The database branch of run: one call of run_sql_query; its exception is not
\* caught; its dataset is put into the cache and registered.
RunDb(sett, fs, cat, cache_key, sql, params, dbOutcome) ==
    LET call == DbCallDone(sett, sql, params, dbOutcome)
        parquet_path == path_for_key(cache_key)
    IN
    IF dbOutcome.tag = "raise"
    THEN [ ret |-> dbOutcome, files |-> fs, catalog |-> cat,
           dbCalls |-> <<call>>, puts |-> <<>>, regs |-> <<>> ]
    ELSE [ ret |-> [tag |-> "return", df |-> dbOutcome,
                    meta |-> [cache_key |-> cache_key, cache_hit |-> FALSE,
                              rows |-> dbOutcome.nrows, mode |-> "db"]],
           files |-> CachePut(fs, cache_key, dbOutcome),
           catalog |-> RegisterParquet(cat, cache_key, parquet_path),
           dbCalls |-> <<call>>,
           puts |-> <<[key |-> cache_key, df |-> dbOutcome]>>,
           regs |-> <<[name |-> cache_key, path |-> parquet_path]>> ]

\* run with the OFFLINE_ONLY test left out
ExecutorRun_IgnoresOffline(sett, fs, cat, sql, params, dbOutcome) ==
    LET cache_key == _cache_key(sql, params)
        cached == CacheGet(fs, cache_key)
    IN
    IF cached # None THEN RunHit(fs, cat, cache_key, cached)
    ELSE RunDb(sett, fs, cat, cache_key, sql, params, dbOutcome)

ExecutorRun(sett, fs, cat, sql, params, dbOutcome) ==
    LET cache_key == _cache_key(sql, params)
        cached == CacheGet(fs, cache_key)
    IN
    IF cached # None THEN RunHit(fs, cat, cache_key, cached)
    ELSE IF sett.OFFLINE_ONLY THEN RunOffline(fs, cat)
    ELSE RunDb(sett, fs, cat, cache_key, sql, params, dbOutcome)

\* ------------------------------------------------------------------ Python values

\* Python values are tagged records; a str holds its text as tokens
PStr(text) == [t |-> "str", v |-> text]
PInt(n) == [t |-> "int", v |-> n]
\* a float with an integral value
PFloat(n) == [t |-> "float", v |-> n]
PNaN == [t |-> "nan"]
PNone == [t |-> "none"]
PTs(d) == [t |-> "ts", v |-> d]
PNaT == [t |-> "nat"]
PList(items) == [t |-> "list", v |-> items]
\* a dict: its (key, value) pairs in insertion order, the keys being texts
PDict(items) == [t |-> "dict", v |-> items]

\* d.get(key): None when the key is missing
DictGet(d, key) ==
    IF \E i \in 1..Len(d.v) : d.v[i][1] = key
    THEN d.v[CHOOSE i \in 1..Len(d.v) : d.v[i][1] = key][2]
    ELSE PNone

\* bool(value)
Truthy(x) ==
    CASE x.t = "none" -> FALSE
      [] x.t = "str" -> x.v # <<>>
      [] x.t \in {"int", "float"} -> x.v # 0
      [] x.t = "list" -> x.v # <<>>
      [] x.t = "dict" -> x.v # <<>>
      [] OTHER -> TRUE

\* str(value)
Str(x) ==
    CASE x.t = "str" -> x.v
      [] x.t = "int" -> <<ToString(x.v)>>
      [] x.t = "float" -> <<ToString(x.v) \o ".0">>
      [] x.t = "nan" -> <<"nan">>
      [] x.t = "none" -> <<"None">>
      [] x.t = "ts" -> <<"2024-01-0" \o ToString(x.v) \o " 00:00:00">>
      [] x.t = "nat" -> <<"NaT">>
      [] OTHER -> <<"<object>">>

\* str.lower() on the tokens the model uses
LowerToken(tok) ==
    CASE tok = "BAR" -> "bar"
      [] tok = "Line" -> "line"
      [] tok = "SUM" -> "sum"
      [] tok = "Avg" -> "avg"
      [] OTHER -> tok

Lower(text) == [i \in 1..Len(text) |-> LowerToken(text[i])]

RECURSIVE LStrip(_)
LStrip(text) == IF text # <<>> /\ Head(text) = " " THEN LStrip(Tail(text)) ELSE text

RECURSIVE RStrip(_)
RStrip(text) ==
    IF text # <<>> /\ text[Len(text)] = " " THEN RStrip(SubSeq(text, 1, Len(text) - 1))
    ELSE text

\* str.strip()
Strip(text) == RStrip(LStrip(text))

\* ------------------------------------------------------------------ json.dumps

RECURSIVE JsonSerializable(_)
\* json.dumps raises TypeError on a Timestamp or NaT anywhere in the value
JsonSerializable(x) ==
    CASE x.t \in {"ts", "nat"} -> FALSE
      [] x.t = "list" -> \A i \in 1..Len(x.v) : JsonSerializable(x.v[i])
      [] x.t = "dict" -> \A i \in 1..Len(x.v) : JsonSerializable(x.v[i][2])
      [] OTHER -> TRUE

\* the JSON string escapes: only the quote and the backslash are of interest
JsonEscapeToken(tok) ==
    CASE tok = "\"" -> <<"\\", "\"">>
      [] tok = "\\" -> <<"\\", "\\">>
      [] OTHER -> <<tok>>

JsonString(text) ==
    <<"\"">> \o Concat([i \in 1..Len(text) |-> JsonEscapeToken(text[i])]) \o <<"\"">>

RECURSIVE JsonText(_)
\* json.dumps(value) of a serializable value
JsonText(x) ==
    CASE x.t = "str" -> JsonString(x.v)
      [] x.t = "int" -> <<ToString(x.v)>>
      [] x.t = "float" -> <<ToString(x.v) \o ".0">>
      [] x.t = "nan" -> <<"NaN">>
      [] x.t = "none" -> <<"null">>
      [] x.t = "list" ->
            <<"[">> \o JoinWith(<<", ">>, [i \in 1..Len(x.v) |-> JsonText(x.v[i])]) \o <<"]">>
      [] x.t = "dict" ->
            <<"{">>
            \o JoinWith(<<", ">>, [i \in 1..Len(x.v) |->
                    JsonString(x.v[i][1]) \o <<": ">> \o JsonText(x.v[i][2])])
            \o <<"}">>

\* ------------------------------------------------------------------ DataFrame

\* a DataFrame: its columns (name, dtype) and its rows, each row holding one
\* value per column
ColumnNames(df) == [i \in 1..Len(df.columns) |-> df.columns[i].name]

\* pd.api.types.is_numeric_dtype
IsNumericDtype(dtype) == dtype \in {"int64", "float64"}
\* dtype == "object" or pd.api.types.is_string_dtype
IsStringDtype(dtype) == dtype = "object"
\* pd.api.types.is_datetime64_any_dtype
IsDatetimeDtype(dtype) == dtype = "datetime64[ns]"

NamesOf(cols) == [i \in 1..Len(cols) |-> cols[i].name]

NumericCols(df) == NamesOf(SelectSeq(df.columns, LAMBDA c : IsNumericDtype(c.dtype)))
CatCols(df) == NamesOf(SelectSeq(df.columns, LAMBDA c : IsStringDtype(c.dtype)))
DateCols(df) == NamesOf(SelectSeq(df.columns, LAMBDA c : IsDatetimeDtype(c.dtype)))

\* df.empty
DfEmpty(df) == Len(df.rows) = 0 \/ Len(df.columns) = 0

\* df.head(n).to_dict(orient="records")
ToDictRecords(df, n) ==
    [r \in 1..Min(n, Len(df.rows)) |->
        PDict([c \in 1..Len(df.columns) |-> <<df.columns[c].name, df.rows[r][c]>>])]

\* ------------------------------------------------------------------ numbers

\* A float is a fraction n/d with d > 0, or NaN
Q(n, d) == [n |-> n, d |-> d]
QNaN == [n |-> 0, d |-> 0]

Abs(n) == IF n < 0 THEN -n ELSE n

RECURSIVE Pow10(_)
Pow10(k) == IF k = 0 THEN 1 ELSE 10 * Pow10(k - 1)

\* a / b rounded to the nearest integer, ties to even (a >= 0, b > 0)
RoundDiv(a, b) ==
    LET q == a \div b
        r == a % b
    IN IF 2 * r > b \/ (2 * r = b /\ q % 2 = 1) THEN q + 1 ELSE q

RECURSIVE ZeroPad(_, _)
\* the decimal digits of n, left-padded with zeros to the given width
ZeroPad(n, width) ==
    IF width = 0 THEN ""
    ELSE ZeroPad(n \div 10, width - 1) \o ToString(n % 10)

\* f"{n/d:.{places}f}"
Fixed(n, d, places) ==
    LET scaled == RoundDiv(Abs(n) * Pow10(places), d)
        whole == scaled \div Pow10(places)
        frac == scaled % Pow10(places)
    IN (IF n < 0 THEN "-" ELSE "") \o ToString(whole) \o "." \o ZeroPad(frac, places)

RECURSIVE Grouped(_)
\* f"{n:,}" for n >= 0
Grouped(n) ==
    IF n < 1000 THEN ToString(n)
    ELSE Grouped(n \div 1000) \o "," \o ZeroPad(n % 1000, 3)

\* _fmt of a float; the last branch covers 1 <= |v| < 1000, where the group
\* separator of ",.2f" never shows
_fmt(v) ==
    IF v = QNaN THEN <<"NA">>
    ELSE IF Abs(v.n) \div v.d >= 1000000000 THEN <<Fixed(v.n, v.d * 1000000000, 2) \o "B">>
    ELSE IF Abs(v.n) \div v.d >= 1000000 THEN <<Fixed(v.n, v.d * 1000000, 2) \o "M">>
    ELSE IF Abs(v.n) \div v.d >= 1000 THEN <<Fixed(v.n, v.d * 1000, 2) \o "K">>
    ELSE IF Abs(v.n) < v.d THEN <<Fixed(v.n, v.d, 4)>>
    ELSE <<Fixed(v.n, v.d, 2)>>

\* ------------------------------------------------------------------ Series

\* df[name]: the values of the first column with that name
ColumnIndex(df, name) == CHOOSE i \in 1..Len(df.columns) : df.columns[i].name = name

Series(df, name) == [r \in 1..Len(df.rows) |-> df.rows[r][ColumnIndex(df, name)]]

IsMissing(x) == x.t \in {"nan", "none", "nat"}

\* s.dropna()
DropNa(series) == SelectSeq(series, LAMBDA x : ~IsMissing(x))

RECURSIVE SumInts(_)
SumInts(series) == IF series = <<>> THEN 0 ELSE Head(series).v + SumInts(Tail(series))

\* s.sum(): missing values are skipped
SeriesSum(series) == Q(SumInts(DropNa(series)), 1)

\* s.mean(): NaN when every value is missing
SeriesMean(series) ==
    LET kept == DropNa(series) IN
    IF kept = <<>> THEN QNaN ELSE Q(SumInts(kept), Len(kept))

RECURSIVE SeriesMin(_)
SeriesMin(series) ==
    IF Len(series) = 1 THEN series[1].v
    ELSE LET m == SeriesMin(Tail(series)) IN IF series[1].v < m THEN series[1].v ELSE m

RECURSIVE SeriesMax(_)
SeriesMax(series) ==
    IF Len(series) = 1 THEN series[1].v
    ELSE LET m == SeriesMax(Tail(series)) IN IF series[1].v > m THEN series[1].v ELSE m

\* ------------------------------------------------------------------ InsightAgent

LargeDataframeRows == 2000000
DistributionColumns == 3
DistributionTop == 10
TrendMinDates == 3
TrendTail == 60
CorrelationTop == 5

Kpi(title, value, context) == [title |-> title, value |-> value, context |-> context]

RowsKpi(df) == Kpi(<<"Rows">>, <<Grouped(Len(df.rows))>>, <<"Returned rows">>)

\* a round of the loop that looks at the metric's field before its name
MetricKpi_FieldFirst(m, df) ==
    LET name == DictGet(m, <<"name">>)
        field == DictGet(m, <<"field">>)
        numeric == Range(NumericCols(df))
        col == IF field.t = "str" /\ field.v \in numeric THEN field.v ELSE name.v
        s == DropNa(Series(df, col))
    IN
    IF name.t # "str" \/ Strip(name.v) = <<>> THEN [tag |-> "skip"]
    ELSE IF col \notin numeric THEN [tag |-> "skip"]
    ELSE IF s = <<>> THEN [tag |-> "skip"]
    ELSE [tag |-> "kpi",
          kpi |-> Kpi(name.v, _fmt(Q(SumInts(s), 1)),
                      IF col = name.v THEN <<"From query">>
                      ELSE <<"SUM(">> \o col \o <<")">>)]

\* one round of the loop of _kpis_from_plan: the KPI of a metric, nothing, or
\* the AttributeError of .lower() on an agg that is no str
MetricKpi(m, df) ==
    LET name == DictGet(m, <<"name">>)
        rawAgg == DictGet(m, <<"agg">>)
        agg == Strip(Lower(IF Truthy(rawAgg) THEN rawAgg.v ELSE <<>>))
        field == DictGet(m, <<"field">>)
        names == Range(ColumnNames(df))
        numeric == Range(NumericCols(df))
    IN
    IF Truthy(rawAgg) /\ rawAgg.t # "str" THEN [tag |-> "raise", exc |-> "AttributeError"]
    ELSE IF name.t # "str" \/ Strip(name.v) = <<>> THEN [tag |-> "skip"]
    ELSE IF name.v \in names /\ name.v \in numeric
    THEN LET v == DropNa(Series(df, name.v)) IN
         IF v = <<>> THEN [tag |-> "skip"]
         ELSE [tag |-> "kpi",
               kpi |-> Kpi(name.v,
                           _fmt(IF Len(v) = 1 THEN Q(v[1].v, 1) ELSE Q(SumInts(v), 1)),
                           <<"From query">>)]
    ELSE IF field.t = "str" /\ field.v \in names /\ field.v \in numeric
    THEN LET s == DropNa(Series(df, field.v)) IN
         IF s = <<>> THEN [tag |-> "skip"]
         ELSE LET val == CASE agg = <<"sum">> -> Q(SumInts(s), 1)
                           [] agg \in {<<"avg">>, <<"mean">>} -> Q(SumInts(s), Len(s))
                           [] agg = <<"min">> -> Q(SeriesMin(s), 1)
                           [] agg = <<"max">> -> Q(SeriesMax(s), 1)
                           [] agg = <<"count">> -> Q(Len(s), 1)
                           [] OTHER -> Q(SumInts(s), 1)
                  ctx == CASE agg \in {<<"avg">>, <<"mean">>} -> <<"AVG(">>
                           [] agg = <<"min">> -> <<"MIN(">>
                           [] agg = <<"max">> -> <<"MAX(">>
                           [] agg = <<"count">> -> <<"COUNT(">>
                           [] OTHER -> <<"SUM(">>
              IN [tag |-> "kpi", kpi |-> Kpi(name.v, _fmt(val), ctx \o field.v \o <<")">>)]
    ELSE [tag |-> "skip"]

RECURSIVE MetricKpis(_, _)
MetricKpis(metrics, df) ==
    IF metrics = <<>> THEN [tag |-> "ok", kpis |-> <<>>]
    ELSE IF Head(metrics).t # "dict" THEN MetricKpis(Tail(metrics), df)
    ELSE LET k == MetricKpi(Head(metrics), df) IN
         IF k.tag = "raise" THEN k
         ELSE LET rest == MetricKpis(Tail(metrics), df) IN
              IF rest.tag = "raise" THEN rest
              ELSE [tag |-> "ok",
                    kpis |-> (IF k.tag = "kpi" THEN <<k.kpi>> ELSE <<>>) \o rest.kpis]

\* _kpis_from_plan: the row count card, then the cards of the plan's metrics
_kpis_from_plan(df, plan) ==
    LET out == <<RowsKpi(df)>>
        metrics == plan.metrics
    IN
    IF metrics.t # "list" THEN [tag |-> "ok", kpis |-> out]
    ELSE LET rest == MetricKpis(metrics.v, df) IN
         IF rest.tag = "raise" THEN rest
         ELSE [tag |-> "ok", kpis |-> out \o rest.kpis]

\* the cards generate puts in the place of an empty list of cards
FallbackKpis(df) ==
    LET numeric_cols == NumericCols(df) IN
    <<RowsKpi(df),
      Kpi(<<"Columns">>, <<Grouped(Len(df.columns))>>, <<"Returned columns">>)>>
    \o (IF numeric_cols # <<>>
        THEN LET col == numeric_cols[1] IN
             <<Kpi(<<"Sum(">> \o col \o <<")">>, _fmt(SeriesSum(Series(df, col))), <<"Total">>),
               Kpi(<<"Avg(">> \o col \o <<")">>, _fmt(SeriesMean(Series(df, col))), <<"Mean">>)>>
        ELSE <<>>)

RECURSIVE Distinct(_)
\* the values of a sequence, each once, in the order they are first seen
Distinct(seq) ==
    IF seq = <<>> THEN <<>>
    ELSE LET init == Distinct(SubSeq(seq, 1, Len(seq) - 1))
             x == seq[Len(seq)]
         IN IF x \in Range(init) THEN init ELSE Append(init, x)

CountOf(seq, x) == Cardinality({i \in 1..Len(seq) : seq[i] = x})

RECURSIVE InsertByCount(_, _)
\* stable insertion into a list ordered by descending count
InsertByCount(item, sorted) ==
    IF sorted = <<>> THEN <<item>>
    ELSE IF Head(sorted).count >= item.count
         THEN <<Head(sorted)>> \o InsertByCount(item, Tail(sorted))
         ELSE <<item>> \o sorted

RECURSIVE SortByCount(_)
SortByCount(items) ==
    IF items = <<>> THEN <<>>
    ELSE InsertByCount(items[Len(items)], SortByCount(SubSeq(items, 1, Len(items) - 1)))

\* df[c].astype(str).value_counts(dropna=False).head(10)
Distribution(df, c) ==
    LET labels == [r \in 1..Len(df.rows) |-> Str(Series(df, c)[r])]
        seen == Distinct(labels)
        counted == [i \in 1..Len(seen) |-> [label |-> seen[i], count |-> CountOf(labels, seen[i])]]
    IN [column |-> c, top |-> Take(SortByCount(counted), DistributionTop)]

RECURSIVE SortedInts(_)
\* the members of a set of integers in ascending order
SortedInts(S) ==
    IF S = {} THEN <<>>
    ELSE LET m == CHOOSE x \in S : \A y \in S : x <= y IN <<m>> \o SortedInts(S \ {m})

LastN(seq, n) == IF Len(seq) <= n THEN seq ELSE SubSeq(seq, Len(seq) - n + 1, Len(seq))

\* str(date)
DateText(d) == <<"2024-01-0" \o ToString(d)>>

\* the trend block of generate: rows with NaT dropped, the first numeric
\* column summed by date (missing values skipped), dates ascending
Trends(df) ==
    LET date_cols == DateCols(df)
        numeric_cols == NumericCols(df)
    IN
    IF date_cols = <<>> \/ numeric_cols = <<>> THEN <<>>
    ELSE
    LET tcol == date_cols[1]
        ncol == numeric_cols[1]
        t == Series(df, tcol)
        v == Series(df, ncol)
        kept == {r \in 1..Len(df.rows) : ~IsMissing(t[r])}
        dates == SortedInts({t[r].v : r \in kept})
        sumOf(d) == SumInts(DropNa(
                        [i \in 1..Len(SortedInts({r \in kept : t[r].v = d})) |->
                            v[SortedInts({r \in kept : t[r].v = d})[i]]]))
        g == [i \in 1..Len(dates) |-> [date |-> DateText(dates[i]), value |-> Q(sumOf(dates[i]), 1)]]
    IN
    IF Len(g) >= TrendMinDates
    THEN << [time_field |-> tcol, metric |-> ncol, points |-> LastN(g, TrendTail),
             note |-> <<"Summed by date">>] >>
    ELSE <<>>

\* the Pearson correlation of two columns over the rows where both have a
\* value: its sign and its square as a fraction; NaN when a column is constant
Pearson(df, a, b) ==
    LET x == Series(df, a)
        y == Series(df, b)
        rows == SortedInts({r \in 1..Len(df.rows) : ~IsMissing(x[r]) /\ ~IsMissing(y[r])})
        n == Len(rows)
        sx == SumInts([i \in 1..n |-> x[rows[i]]])
        sy == SumInts([i \in 1..n |-> y[rows[i]]])
        sxy == SumInts([i \in 1..n |-> PInt(x[rows[i]].v * y[rows[i]].v)])
        sxx == SumInts([i \in 1..n |-> PInt(x[rows[i]].v * x[rows[i]].v)])
        syy == SumInts([i \in 1..n |-> PInt(y[rows[i]].v * y[rows[i]].v)])
        cov == n * sxy - sx * sy
        vx == n * sxx - sx * sx
        vy == n * syy - sy * sy
    IN
    IF vx = 0 \/ vy = 0 THEN [defined |-> FALSE]
    ELSE [defined |-> TRUE,
          sign |-> IF cov < 0 THEN -1 ELSE IF cov = 0 THEN 0 ELSE 1,
          sq |-> Q(cov * cov, vx * vy)]

\* the order of str on the column names of the model
NameRank(name) ==
    CASE name = <<"amount">> -> 1
      [] name = <<"category">> -> 2
      [] name = <<"date">> -> 3
      [] name = <<"qty">> -> 4
      [] OTHER -> 0

NamePos(frame, name) == NameRank(name)

\* (abs(r1), r1, a1, b1) > (abs(r2), r2, a2, b2)
CorrGreater(frame, p1, p2) ==
    LET l == p1.r.sq.n * p2.r.sq.d
        r == p2.r.sq.n * p1.r.sq.d
    IN
    \/ l > r
    \/ l = r /\ p1.r.sign > p2.r.sign
    \/ l = r /\ p1.r.sign = p2.r.sign /\ NamePos(frame, p1.a) > NamePos(frame, p2.a)
    \/ l = r /\ p1.r.sign = p2.r.sign /\ p1.a = p2.a /\ NamePos(frame, p1.b) > NamePos(frame, p2.b)

RECURSIVE InsertCorr(_, _, _)
InsertCorr(df, item, sorted) ==
    IF sorted = <<>> THEN <<item>>
    ELSE IF CorrGreater(df, item, Head(sorted)) THEN <<item>> \o sorted
    ELSE <<Head(sorted)>> \o InsertCorr(df, item, Tail(sorted))

RECURSIVE SortCorr(_, _)
\* pairs.sort(reverse=True)
SortCorr(df, pairs) ==
    IF pairs = <<>> THEN <<>>
    ELSE InsertCorr(df, Head(pairs), SortCorr(df, Tail(pairs)))

\* the correlation block of generate
Correlations(df) ==
    LET numeric_cols == NumericCols(df)
        idx == {<<i, j>> \in (1..Len(numeric_cols)) \X (1..Len(numeric_cols)) : i < j}
        RECURSIVE pairsOf(_)
        pairsOf(S) ==
            IF S = {} THEN <<>>
            ELSE LET p == CHOOSE q \in S : \A o \in S :
                              q[1] < o[1] \/ (q[1] = o[1] /\ q[2] <= o[2])
                     r == Pearson(df, numeric_cols[p[1]], numeric_cols[p[2]])
                 IN (IF r.defined
                     THEN <<[a |-> numeric_cols[p[1]], b |-> numeric_cols[p[2]], r |-> r]>>
                     ELSE <<>>)
                    \o pairsOf(S \ {p})
        ranked == Take(SortCorr(df, pairsOf(idx)), CorrelationTop)
    IN
    IF Len(numeric_cols) < 2 THEN <<>>
    ELSE [i \in 1..Len(ranked) |-> [a |-> ranked[i].a, b |-> ranked[i].b, corr |-> ranked[i].r]]

\* f"{corr:.2f}": the hundredths nearest to the root of the squared value
CorrText(r) ==
    LET k == CHOOSE h \in 0..100 :
                 /\ (2 * h - 1) * (2 * h - 1) * r.sq.d <= 40000 * r.sq.n \/ h = 0
                 /\ 40000 * r.sq.n < (2 * h + 1) * (2 * h + 1) * r.sq.d
    IN (IF r.sign < 0 THEN "-" ELSE "") \o Fixed(k, 100, 2)

\* the summary sentence of generate
Summary(df, distributions, trends, correlations) ==
    <<"Returned " \o Grouped(Len(df.rows)) \o " rows and "
      \o Grouped(Len(df.columns)) \o " columns.">>
    \o (IF distributions # <<>>
        THEN <<" Strongest categorical breakdown: ">> \o distributions[1].column \o <<".">>
        ELSE <<>>)
    \o (IF trends # <<>> THEN <<" Trend signals detected.">> ELSE <<>>)
    \o (IF correlations # <<>>
        THEN <<" Strongest numeric relationship: ">> \o correlations[1].a \o <<" vs ">>
             \o correlations[1].b \o <<" (corr=" \o CorrText(correlations[1].corr) \o ").">>
        ELSE <<>>)

EmptyReport ==
    [ tag |-> "report",
      kpis |-> <<Kpi(<<"No Data">>, <<"0 rows">>, <<"Query returned no records">>)>>,
      summary |-> <<"No data returned for the query. Adjust filters or table selection.">>,
      distributions |-> <<>>,
      trends |-> <<>>,
      correlations |-> <<>>,
      warnings |-> << <<"empty_result">> >> ]

\* generate reading the plan's metrics before it looks at the row count
generate_PlanFirst(df, plan) ==
    LET planned == IF plan = PNone THEN [tag |-> "raise", exc |-> "AttributeError"]
                   ELSE _kpis_from_plan(df, plan)
    IN
    IF planned.tag = "raise" THEN planned
    ELSE IF DfEmpty(df) THEN EmptyReport
    ELSE
    LET shown == Take(CatCols(df), DistributionColumns)
        distributions == [i \in 1..Len(shown) |-> Distribution(df, shown[i])]
    IN
    [ tag |-> "report",
      kpis |-> planned.kpis,
      summary |-> Summary(df, distributions, Trends(df), Correlations(df)),
      distributions |-> distributions,
      trends |-> Trends(df),
      correlations |-> Correlations(df),
      warnings |-> <<>> ]

\* InsightAgent.generate: the report, or the exception of _kpis_from_plan
generate(df, plan) ==
    IF DfEmpty(df) THEN EmptyReport
    ELSE
    LET cat_cols == CatCols(df)
        warnings == IF Len(df.rows) > LargeDataframeRows
                    THEN << <<"large_dataframe_memory_risk">> >> ELSE <<>>
        planned == _kpis_from_plan(df, plan)
    IN
    IF planned.tag = "raise" THEN planned
    ELSE
    LET kpis == IF planned.kpis = <<>> THEN FallbackKpis(df) ELSE planned.kpis
        shown == Take(cat_cols, DistributionColumns)
        distributions == [i \in 1..Len(shown) |-> Distribution(df, shown[i])]
        trends == Trends(df)
        correlations == Correlations(df)
    IN
    [ tag |-> "report",
      kpis |-> kpis,
      summary |-> Summary(df, distributions, trends, correlations),
      distributions |-> distributions,
      trends |-> trends,
      correlations |-> correlations,
      warnings |-> warnings ]

\* ------------------------------------------------------------------ DashboardAgent

PreviewRows == 200
MaxKpiCards == 12
MaxWarningBadges == 6
BarTopN == 20

ChartTypes == {<<"line">>, <<"bar">>, <<"scatter">>, <<"area">>, <<"hist">>}

Raise(exc) == [tag |-> "raise", exc |-> exc]

\* _normalize_visual: None, a chart spec, or an exception; id is the next uuid
_normalize_visual(v, df, id) ==
    LET rawType == DictGet(v, <<"type">>)
        rawTitle == DictGet(v, <<"title">>)
        title == IF Truthy(rawTitle) THEN rawTitle ELSE PStr(<<"Chart">>)
        x == DictGet(v, <<"x">>)
        y == DictGet(v, <<"y">>)
        names == Range(ColumnNames(df))
        ylist == IF y.t = "list"
                 THEN SelectSeq(y.v, LAMBDA c : c.t = "str" /\ c.v \in names)
                 ELSE <<>>
        vtype == Strip(Lower(IF Truthy(rawType) THEN rawType.v ELSE <<"line">>))
    IN
    IF Truthy(rawType) /\ rawType.t # "str" THEN Raise("AttributeError")
    ELSE IF x.t = "str" /\ x.v \notin names THEN None
    ELSE IF y.t = "str" /\ y.v \notin names THEN None
    ELSE IF y.t = "list" /\ ylist = <<>> THEN None
    ELSE [ tag |-> "chart",
           id |-> "chart_" \o id,
           type |-> IF vtype \in ChartTypes THEN vtype ELSE <<"line">>,
           title |-> Str(title),
           x |-> x,
           y |-> IF y.t = "list" THEN PList(ylist) ELSE y ]

\* _auto_charts with the histogram put before the scatter
_auto_charts_HistFirst(df, uuids) ==
    LET numeric_cols == NumericCols(df)
        cat_cols == CatCols(df)
        date_cols == DateCols(df)
        cols == ColumnNames(df)
        trend == IF date_cols # <<>> /\ numeric_cols # <<>>
                 THEN << [tag |-> "chart", type |-> <<"line">>,
                          title |-> <<"Trend: ">> \o numeric_cols[1] \o <<" over time">>,
                          x |-> PStr(date_cols[1]), y |-> PStr(numeric_cols[1])] >>
                 ELSE <<>>
        bar == IF cat_cols # <<>> /\ numeric_cols # <<>>
               THEN << [tag |-> "chart", type |-> <<"bar">>,
                        title |-> <<"Top categories: ">> \o numeric_cols[1]
                                  \o <<" by ">> \o cat_cols[1],
                        x |-> PStr(cat_cols[1]), y |-> PStr(numeric_cols[1]),
                        aggregate |-> <<"sum">>, top_n |-> BarTopN] >>
               ELSE <<>>
        scatter == IF Len(numeric_cols) >= 2
                   THEN << [tag |-> "chart", type |-> <<"scatter">>,
                            title |-> <<"Scatter: ">> \o numeric_cols[1]
                                      \o <<" vs ">> \o numeric_cols[2],
                            x |-> PStr(numeric_cols[1]), y |-> PStr(numeric_cols[2])] >>
                   ELSE <<>>
        hist == IF numeric_cols # <<>>
                THEN << [tag |-> "chart", type |-> <<"hist">>,
                         title |-> <<"Distribution: ">> \o numeric_cols[1],
                         x |-> PStr(numeric_cols[1]), y |-> PNone] >>
                ELSE <<>>
        found == trend \o bar \o hist \o scatter
        charts == IF found = <<>> /\ Len(cols) >= 2
                  THEN << [tag |-> "chart", type |-> <<"line">>, title |-> <<"Auto Chart">>,
                           x |-> PStr(cols[1]), y |-> PStr(cols[2])] >>
                  ELSE found
    IN
    [i \in 1..Len(charts) |-> [id |-> "chart_" \o uuids[i]] @@ charts[i]]

\* _auto_charts; uuids are the ids uuid4 hands out, in order
_auto_charts(df, uuids) ==
    LET numeric_cols == NumericCols(df)
        cat_cols == CatCols(df)
        date_cols == DateCols(df)
        cols == ColumnNames(df)
        trend == IF date_cols # <<>> /\ numeric_cols # <<>>
                 THEN << [tag |-> "chart", type |-> <<"line">>,
                          title |-> <<"Trend: ">> \o numeric_cols[1] \o <<" over time">>,
                          x |-> PStr(date_cols[1]), y |-> PStr(numeric_cols[1])] >>
                 ELSE <<>>
        bar == IF cat_cols # <<>> /\ numeric_cols # <<>>
               THEN << [tag |-> "chart", type |-> <<"bar">>,
                        title |-> <<"Top categories: ">> \o numeric_cols[1]
                                  \o <<" by ">> \o cat_cols[1],
                        x |-> PStr(cat_cols[1]), y |-> PStr(numeric_cols[1]),
                        aggregate |-> <<"sum">>, top_n |-> BarTopN] >>
               ELSE <<>>
        scatter == IF Len(numeric_cols) >= 2
                   THEN << [tag |-> "chart", type |-> <<"scatter">>,
                            title |-> <<"Scatter: ">> \o numeric_cols[1]
                                      \o <<" vs ">> \o numeric_cols[2],
                            x |-> PStr(numeric_cols[1]), y |-> PStr(numeric_cols[2])] >>
                   ELSE <<>>
        hist == IF numeric_cols # <<>>
                THEN << [tag |-> "chart", type |-> <<"hist">>,
                         title |-> <<"Distribution: ">> \o numeric_cols[1],
                         x |-> PStr(numeric_cols[1]), y |-> PNone] >>
                ELSE <<>>
        found == trend \o bar \o scatter \o hist
        charts == IF found = <<>> /\ Len(cols) >= 2
                  THEN << [tag |-> "chart", type |-> <<"line">>, title |-> <<"Auto Chart">>,
                           x |-> PStr(cols[1]), y |-> PStr(cols[2])] >>
                  ELSE found
    IN
    [i \in 1..Len(charts) |-> [id |-> "chart_" \o uuids[i]] @@ charts[i]]

RECURSIVE NormalizeAll(_, _, _)
\* the loop of _build_chart_specs over plan["visuals"]: the specs that
\* survive, or the exception of the first entry that raises
NormalizeAll(visuals, df, uuids) ==
    IF visuals = <<>> THEN [tag |-> "ok", specs |-> <<>>]
    ELSE IF Head(visuals).t # "dict" THEN NormalizeAll(Tail(visuals), df, uuids)
    ELSE LET spec == _normalize_visual(Head(visuals), df, Head(uuids)) IN
         IF spec.tag = "raise" THEN spec
         ELSE IF spec = None THEN NormalizeAll(Tail(visuals), df, uuids)
         ELSE LET rest == NormalizeAll(Tail(visuals), df, Tail(uuids)) IN
              IF rest.tag = "raise" THEN rest
              ELSE [tag |-> "ok", specs |-> <<spec>> \o rest.specs]

\* _build_chart_specs adding the auto-detected charts to the plan's
_build_chart_specs_Mixed(df, plan, uuids) ==
    LET visuals == plan.visuals
        planned == IF visuals.t = "list" /\ visuals.v # <<>>
                   THEN NormalizeAll(visuals.v, df, uuids)
                   ELSE [tag |-> "ok", specs |-> <<>>]
    IN
    IF planned.tag = "raise" THEN planned
    ELSE [tag |-> "ok", specs |-> planned.specs \o _auto_charts(df, uuids)]

\* _build_chart_specs: the chart specs, or an exception
_build_chart_specs(df, plan, uuids) ==
    LET visuals == plan.visuals
        planned == IF visuals.t = "list" /\ visuals.v # <<>>
                   THEN NormalizeAll(visuals.v, df, uuids)
                   ELSE [tag |-> "ok", specs |-> <<>>]
    IN
    IF planned.tag = "raise" THEN planned
    ELSE IF planned.specs # <<>> THEN planned
    ELSE [tag |-> "ok", specs |-> _auto_charts(df, uuids)]

\* ------------------------------------------------------------------ HTML rendering

\* s.replace(old, new) for a one-character old
Replace(text, old, new) ==
    Concat([i \in 1..Len(text) |-> IF text[i] = old THEN new ELSE <<text[i]>>])

\* an entity is the & character followed by its name
_esc(text) ==
    Replace(Replace(Replace(Replace(Replace(text,
        "&", <<"&", "amp;">>),
        "<", <<"&", "lt;">>),
        ">", <<"&", "gt;">>),
        "\"", <<"&", "quot;">>),
        "'", <<"&", "#39;">>)

\* The document is kept as the parts of the f-string that builds it: the
\* literal text of the template ("lit"), a value passed through _esc ("esc"),
\* a value passed through json.dumps ("json") and a value embedded as it is
\* ("plain"). The html string is the concatenation of their texts.
Lit(text) == [kind |-> "lit", text |-> text]
EscPart(slot, raw) == [kind |-> "esc", slot |-> slot, raw |-> raw, text |-> _esc(raw)]
JsonPart(slot, value) == [kind |-> "json", slot |-> slot, value |-> value, text |-> JsonText(value)]
PlainPart(slot, text) == [kind |-> "plain", slot |-> slot, text |-> text]

HtmlOf(parts) == Concat([i \in 1..Len(parts) |-> parts[i].text])

\* _render_table
_render_table(cols, rows) ==
    LET head == [c \in 1..Len(cols) |->
                    <<Lit(<<"<th>">>), EscPart("column", cols[c]), Lit(<<"</th>">>)>>]
        cell(r, c) == <<Lit(<<"<td>">>),
                        EscPart("cell", Str(DictGet(rows[r], cols[c]))),
                        Lit(<<"</td>">>)>>
        body == [r \in 1..Len(rows) |->
                    <<Lit(<<"<tr>">>)>>
                    \o Concat([c \in 1..Len(cols) |-> cell(r, c)])
                    \o <<Lit(<<"</tr>">>)>>]
    IN
    <<Lit(<<"<table><thead><tr>">>)>> \o Concat(head)
    \o <<Lit(<<"</tr></thead><tbody>">>)>> \o JoinWith(<<Lit(<<"\n">>)>>, body)
    \o <<Lit(<<"</tbody></table>">>)>>

\* _render_warnings, for a list of str
_render_warnings(warnings) ==
    IF warnings = <<>> THEN <<>>
    ELSE JoinWith(<<Lit(<<" ">>)>>,
            [i \in 1..Len(Take(warnings, MaxWarningBadges)) |->
                <<Lit(<<"<span class=\"badge\">">>), EscPart("warning", warnings[i]),
                  Lit(<<"</span>">>)>>])

\* _render_html: the parts of the document, or the TypeError of json.dumps
_render_html(dashboard_id, kpis, charts, columns, preview_rows, summary, warnings) ==
    LET chart_divs == JoinWith(<<Lit(<<"\n">>)>>,
            [i \in 1..Len(charts) |->
                <<Lit(<<"<div class=\"chart-card\"><div class=\"chart-title\">">>),
                  EscPart("chart-title", charts[i].title),
                  Lit(<<"</div><div id=\"">>),
                  PlainPart("chart-id", <<charts[i].id>>),
                  Lit(<<"\" class=\"chart\"></div></div>">>)>>])
        shown == Take(kpis, MaxKpiCards)
        kpi_divs == JoinWith(<<Lit(<<"\n">>)>>,
            [i \in 1..Len(shown) |->
                <<Lit(<<"<div class=\"kpi\"><div class=\"kpi-title\">">>),
                  EscPart("kpi-title", shown[i].title),
                  Lit(<<"</div><div class=\"kpi-value\">">>),
                  EscPart("kpi-value", shown[i].value),
                  Lit(<<"</div><div class=\"kpi-context\">">>),
                  EscPart("kpi-context", shown[i].context),
                  Lit(<<"</div></div>">>)>>])
        chartValue(c) ==
            PDict(<< <<<<"id">>, PStr(<<c.id>>)>>, <<<<"type">>, PStr(c.type)>>,
                     <<<<"title">>, PStr(c.title)>>, <<<<"x">>, c.x>>, <<<<"y">>, c.y>> >>
                  \o (IF "aggregate" \in DOMAIN c
                      THEN << <<<<"aggregate">>, PStr(c.aggregate)>>,
                              <<<<"top_n">>, PInt(c.top_n)>> >>
                      ELSE <<>>))
        data == PList(preview_rows)
        full_columns == PList([i \in 1..Len(columns) |-> PStr(columns[i])])
        chartsValue == PList([i \in 1..Len(charts) |-> chartValue(charts[i])])
    IN
    IF ~(JsonSerializable(data) /\ JsonSerializable(full_columns)
         /\ JsonSerializable(chartsValue))
    THEN Raise("TypeError")
    ELSE [ tag |-> "html",
           parts |->
             <<Lit(<<"<!DOCTYPE html><html><head>...</head><body><div class=\"sub\">">>),
               EscPart("summary", summary),
               Lit(<<"</div><div>">>)>>
             \o _render_warnings(warnings)
             \o <<Lit(<<"</div><div class=\"kpi-grid\">">>)>>
             \o kpi_divs
             \o <<Lit(<<"</div><div class=\"grid\">">>)>>
             \o chart_divs
             \o <<Lit(<<"</div><div class=\"table-wrap\">Data Preview (first ">>),
                  PlainPart("preview-count", <<ToString(Len(preview_rows))>>),
                  Lit(<<" rows)">>)>>
             \o _render_table(columns, preview_rows)
             \o <<Lit(<<"</div><script>const DATA = ">>),
                  JsonPart("DATA", data),
                  Lit(<<";const FULL_COLUMNS = ">>),
                  JsonPart("FULL_COLUMNS", full_columns),
                  Lit(<<";const CHARTS = ">>),
                  JsonPart("CHARTS", chartsValue),
                  Lit(<<";...</script></body></html>">>)>> ]

\* _empty_dashboard
_empty_dashboard(message) ==
    <<Lit(<<"<html><body><h3>Dashboard unavailable</h3><p>">>),
      EscPart("message", message),
      Lit(<<"</p></body></html>">>)>>

\* build_dashboard; uuids are the values uuid4 hands out, in order. insights
\* is a report of InsightAgent.generate: its kpis and warnings are lists.
build_dashboard(df, plan, insights, uuids) ==
    IF DfEmpty(df)
    THEN [ tag |-> "return",
           html |-> _empty_dashboard(<<"No data returned from query.">>),
           meta |-> [status |-> "empty", reason |-> "no rows"] ]
    ELSE
    LET dashboard_id == "dash_" \o Head(uuids)
        built == _build_chart_specs(df, plan, Tail(uuids))
    IN
    IF built.tag = "raise" THEN built
    ELSE
    LET charts == built.specs
        kpis == insights.kpis
        preview_n == Min(PreviewRows, Len(df.rows))
        preview_rows == ToDictRecords(df, preview_n)
        columns == ColumnNames(df)
        html == _render_html(dashboard_id, kpis, charts, columns, preview_rows,
                             insights.summary, insights.warnings)
    IN
    IF html.tag = "raise" THEN html
    ELSE [ tag |-> "return",
           html |-> html.parts,
           meta |-> [ dashboard_type |-> "plotly_html",
                      charts |-> [i \in 1..Len(charts) |->
                                    [title |-> charts[i].title, type |-> charts[i].type,
                                     x |-> charts[i].x, y |-> charts[i].y]],
                      kpis |-> Take(kpis, MaxKpiCards),
                      rows |-> Len(df.rows),
                      cols |-> Len(df.columns) ] ]

\* ------------------------------------------------------------------ actions

\* the history of puts and removals that SnapshotCache.get is compared with
ExpectAfterPuts(ex, puts) ==
    IF puts = <<>> THEN ex ELSE [ex EXCEPT ![puts[1].key] = puts[1].df]

Run(req, dbOutcome) ==
    LET r == ExecutorRun(settings, files, catalog, req.sql, req.params, dbOutcome) IN
    /\ files' = r.files
    /\ catalog' = r.catalog
    /\ expect' = ExpectAfterPuts(expect, r.puts)
    /\ last' = [op |-> "run", sql |-> req.sql, params |-> req.params,
                key |-> _cache_key(req.sql, req.params),
                cached |-> CacheGet(files, _cache_key(req.sql, req.params)),
                damaged |-> files[path_for_key(_cache_key(req.sql, req.params))] = Garbage,
                ret |-> r.ret, dbCalls |-> r.dbCalls, puts |-> r.puts, regs |-> r.regs]
    /\ UNCHANGED <<settings, keyVars, dashVars>>

Put(key, df) ==
    /\ files' = CachePut(files, key, df)
    /\ expect' = [expect EXCEPT ![key] = df]
    /\ last' = [op |-> "put", key |-> key, df |-> df,
                ret |-> [tag |-> "return", value |-> path_for_key(key)]]
    /\ UNCHANGED <<settings, catalog, keyVars, dashVars>>

Get(key) ==
    /\ last' = [op |-> "get", key |-> key,
                ret |-> [tag |-> "return", value |-> CacheGet(files, key)]]
    /\ UNCHANGED <<settings, files, catalog, expect, keyVars, dashVars>>

Delete(key, unlinkFails) ==
    LET res == CacheDeleteResult(files, key, unlinkFails) IN
    /\ files' = CacheDelete(files, key, unlinkFails)
    /\ expect' = IF res.tag = "return" THEN [expect EXCEPT ![key] = None] ELSE expect
    /\ last' = [op |-> "delete", key |-> key, ret |-> res]
    /\ UNCHANGED <<settings, catalog, keyVars, dashVars>>

ClearAll(failing) ==
    /\ files' = CacheClearAll(files, failing)
    /\ expect' = [k \in Keys |-> None]
    /\ last' = [op |-> "clear_all", failing |-> failing,
                ret |-> [tag |-> "return", value |-> CacheClearAllCount(files, failing)]]
    /\ UNCHANGED <<settings, catalog, keyVars, dashVars>>

\* the environment damages a snapshot file (a torn write, a truncated disk)
Corrupt(path) ==
    /\ Exists(files, path)
    /\ files[path] # Garbage
    /\ files' = [files EXCEPT ![path] = Garbage]
    /\ last' = [op |-> "corrupt", path |-> path]
    /\ UNCHANGED <<settings, catalog, expect, keyVars, dashVars>>

\* Executor.__post_init__: a new Executor over the same cache directory and
\* catalog, with its own settings
NewExecutor(sett) ==
    /\ sett # settings
    /\ settings' = sett
    /\ last' = [op |-> "init"]
    /\ UNCHANGED <<files, catalog, expect, keyVars, dashVars>>

\* _cache_key applied to the two requests
ComputeKeys ==
    /\ keyA = None
    /\ keyA' = _cache_key(reqA.sql, reqA.params)
    /\ keyB' = _cache_key(reqB.sql, reqB.params)
    /\ UNCHANGED <<execVars, reqA, reqB, dashVars>>

InitExec ==
    /\ settings \in SettingsSet
    /\ files = [p \in Paths |-> NoFile]
    /\ catalog = [k \in Keys |-> None]
    /\ last = [op |-> "init"]
    /\ expect = [k \in Keys |-> None]

IdleKeys ==
    /\ reqA = None
    /\ reqB = None
    /\ keyA = None
    /\ keyB = None

IdleDash ==
    /\ dataset = None
    /\ queryPlan = None
    /\ report = None
    /\ dash = None
    /\ pc = "idle"

IdleExec ==
    /\ settings = [OFFLINE_ONLY |-> FALSE, QUERY_TIMEOUT_SECONDS |-> 30,
                   MAX_RETURNED_ROWS |-> 1000]
    /\ files = [p \in Paths |-> NoFile]
    /\ catalog = [k \in Keys |-> None]
    /\ last = [op |-> "init"]
    /\ expect = [k \in Keys |-> None]

Init == InitExec /\ IdleKeys /\ IdleDash

\* the cache operations on a file system whose unlink never fails
CacheNext ==
    \/ \E k \in Keys, df \in Datasets : Put(k, df)
    \/ \E k \in Keys : Get(k)
    \/ \E k \in Keys : Delete(k, FALSE)
    \/ ClearAll({})

Next ==
    \/ \E req \in ExecRequests, out \in DbOutcomes : Run(req, out)
    \/ \E k \in Keys, df \in Datasets : Put(k, df)
    \/ \E k \in Keys : Get(k)
    \/ \E k \in Keys, unlinkFails \in BOOLEAN : Delete(k, unlinkFails)
    \/ \E failing \in SUBSET ClearAllGlob(files) : ClearAll(failing)
    \/ \E p \in Paths : Corrupt(p)
    \/ \E sett \in SettingsSet : NewExecutor(sett)

Spec == Init /\ [][Next]_vars

\* the cache used alone, on a healthy file system
SpecCache == Init /\ [][CacheNext]_vars

\* _cache_key on every pair of requests within the bounds
InitKey ==
    /\ IdleExec
    /\ IdleDash
    /\ reqA \in Requests
    /\ reqB \in Requests
    /\ keyA = None
    /\ keyB = None

SpecKey == InitKey /\ [][ComputeKeys]_vars

\* ------------------------------------------------------------------ the agents

MaxCols == 4
MaxRows == 3
MaxVisuals == 2

\* the columns a query result is made of
ColumnPool ==
    { [name |-> <<"date">>, dtype |-> "datetime64[ns]"],
      [name |-> <<"category">>, dtype |-> "object"],
      [name |-> <<"amount">>, dtype |-> "int64"],
      [name |-> <<"qty">>, dtype |-> "float64"] }

Schemas ==
    { cols \in SeqsOf(ColumnPool, 1, MaxCols) :
        /\ \A i, j \in 1..Len(cols) : i # j => cols[i] # cols[j] }

\* the value of row r in a column: one day per row, two regions, a count, and
\* a measurement that is missing in the second row
CellFor(col, r) ==
    CASE col.dtype = "datetime64[ns]" -> PTs(r)
      [] col.dtype = "object" -> PStr(IF r % 2 = 1 THEN <<"north">> ELSE <<"south">>)
      [] col.dtype = "int64" -> PInt(r)
      [] col.dtype = "float64" -> IF r = 2 THEN PNaN ELSE PFloat(2 * r)

Frame(cols, n) ==
    [ columns |-> cols,
      rows |-> [r \in 1..n |-> [c \in 1..Len(cols) |-> CellFor(cols[c], r)]] ]

Frames == { Frame(cols, n) : cols \in Schemas, n \in {0, MaxRows} }

\* the entries a plan's visuals are drawn from
VisualPool ==
    { PDict(<< <<<<"type">>, PStr(<<"BAR">>)>>, <<<<"title">>, PStr(<<"Sales">>)>>,
               <<<<"x">>, PStr(<<"category">>)>>, <<<<"y">>, PStr(<<"amount">>)>> >>),
      PDict(<< <<<<"type">>, PStr(<<"pie">>)>>,
               <<<<"x">>, PStr(<<"date">>)>>,
               <<<<"y">>, PList(<<PStr(<<"amount">>), PStr(<<"missing">>)>>)>> >>),
      PDict(<< <<<<"type">>, PStr(<<" ", "Line", " ">>)>>, <<<<"title">>, PStr(<<"Gone">>)>>,
               <<<<"x">>, PStr(<<"missing">>)>>, <<<<"y">>, PStr(<<"amount">>)>> >>),
      PDict(<< <<<<"x">>, PStr(<<"amount">>)>>,
               <<<<"y">>, PList(<<PStr(<<"missing">>)>>)>> >>),
      PDict(<< <<<<"type">>, PStr(<<"hist">>)>>, <<<<"title">>, PStr(<<>>)>>,
               <<<<"x">>, PStr(<<"amount">>)>> >>),
      PStr(<<"bar chart of amount">>) }

Plans ==
    { [metrics |-> PNone, visuals |-> v] :
        v \in {PNone} \cup { PList(vs) : vs \in SeqsOf(VisualPool, 0, MaxVisuals) } }

\* texts with the characters that matter in a document
HostileTexts ==
    { <<"region">>, <<"<", "/script", ">", "<", "script", ">">>, <<"&", "lt;">>, <<"\"", "'">> }

\* a query result and a plan whose texts come from the database and the planner
HostileFrame(colName, cell) ==
    [ columns |-> << [name |-> colName, dtype |-> "object"],
                     [name |-> <<"amount">>, dtype |-> "int64"] >>,
      rows |-> << <<PStr(cell), PInt(1)>> >> ]

HostilePlan(colName, title, metric) ==
    [ metrics |-> PList(<< PDict(<< <<<<"name">>, PStr(metric)>>,
                                    <<<<"field">>, PStr(<<"amount">>)>>,
                                    <<<<"agg">>, PStr(<<"SUM">>)>> >>) >>),
      visuals |-> PList(<< PDict(<< <<<<"title">>, PStr(title)>>,
                                    <<<<"x">>, PStr(colName)>>,
                                    <<<<"y">>, PStr(<<"amount">>)>> >>) >>) ]

MaxMetrics == 2
MaxTrendRows == 4

\* the entries a plan's metrics are drawn from: a name that is a numeric
\* column (with a field and an agg of its own, or alone), a name computed
\* from a field, a field that is no column, a name that is a text column, a
\* blank name, and an entry that is no dict
MetricPool ==
    { PDict(<< <<<<"name">>, PStr(<<"amount">>)>>, <<<<"field">>, PStr(<<"qty">>)>>,
               <<<<"agg">>, PStr(<<"max">>)>> >>),
      PDict(<< <<<<"name">>, PStr(<<"qty">>)>> >>),
      PDict(<< <<<<"name">>, PStr(<<"Average">>)>>, <<<<"field">>, PStr(<<"amount">>)>>,
               <<<<"agg">>, PStr(<<" ", "Avg">>)>> >>),
      PDict(<< <<<<"name">>, PStr(<<"Total">>)>>, <<<<"field">>, PStr(<<"missing">>)>>,
               <<<<"agg">>, PStr(<<"sum">>)>> >>),
      PDict(<< <<<<"name">>, PStr(<<"category">>)>> >>),
      PDict(<< <<<<"name">>, PStr(<<" ">>)>>, <<<<"field">>, PStr(<<"amount">>)>> >>),
      PStr(<<"total amount">>) }

MetricPlans ==
    { [metrics |-> m, visuals |-> PNone] :
        m \in {PStr(<<"amount">>)}
              \cup { PList(ms) : ms \in SeqsOf(MetricPool, 0, MaxMetrics) } }

\* the datasets the metrics are computed on: one or two columns, no row, one
\* row or MaxRows rows
MetricFrames ==
    { Frame(cols, n) : cols \in {c \in Schemas : Len(c) <= 2}, n \in {0, 1, MaxRows} }

\* the rows of a dataset of dated measurements: a day or NaT, a value or NaN
TrendRows ==
    { <<d, q>> : d \in {PTs(1), PTs(2), PTs(3), PNaT}, q \in {PFloat(2), PNaN} }

TrendFrames ==
    { [ columns |-> << [name |-> <<"date">>, dtype |-> "datetime64[ns]"],
                       [name |-> <<"qty">>, dtype |-> "float64"] >>,
        rows |-> rows ] : rows \in SeqsOf(TrendRows, 1, MaxTrendRows) }

\* the plan that goes with them asks for the KPI of the measurement
TrendPlans ==
    { [metrics |-> PList(<< PDict(<< <<<<"name">>, PStr(<<"qty">>)>> >>) >>),
       visuals |-> PNone] }

\* no plan at all, and plans whose parts are not what the agents expect
OddPlans ==
    { PNone,
      [metrics |-> PStr(<<"amount">>), visuals |-> PInt(5)],
      [metrics |-> PList(<< PDict(<< <<<<"name">>, PStr(<<"amount">>)>>,
                                     <<<<"agg">>, PInt(5)>> >>) >>),
       visuals |-> PList(<< PDict(<< <<<<"type">>, PInt(5)>> >>) >>)] }

EmptyFrames == { Frame(cols, 0) : cols \in Schemas }

\* the ids uuid4 hands out during one build, in order
UuidStreams ==
    { <<"0a1b2c3d", "1b2c3d4e", "2c3d4e5f", "3d4e5f6a", "4e5f6a7b">>,
      <<"9f8e7d6c", "8e7d6c5b", "7d6c5b4a", "6c5b4a39", "5b4a3928">> }

\* InsightAgent.generate(df, plan)
Generate ==
    /\ pc = "new"
    /\ report' = generate(dataset, queryPlan)
    /\ pc' = "generated"
    /\ UNCHANGED <<execVars, keyVars, dataset, queryPlan, dash>>

\* DashboardAgent.build_dashboard(df=, plan=, insights=) on the report; it
\* may be called again on the same dataset, plan and report
Build(uuids) ==
    /\ pc \in {"generated", "built"}
    /\ report.tag = "report"
    /\ dash' = build_dashboard(dataset, queryPlan, report, uuids)
    /\ pc' = "built"
    /\ UNCHANGED <<execVars, keyVars, dataset, queryPlan, report>>

InitDash ==
    /\ IdleExec
    /\ IdleKeys
    /\ \/ dataset \in Frames /\ queryPlan \in Plans
       \/ dataset \in MetricFrames /\ queryPlan \in MetricPlans
       \/ dataset \in TrendFrames /\ queryPlan \in TrendPlans
       \/ dataset \in EmptyFrames /\ queryPlan \in OddPlans
       \/ \E colName, cell, title, metric \in HostileTexts :
             /\ dataset = HostileFrame(colName, cell)
             /\ queryPlan = HostilePlan(colName, title, metric)
    /\ report = None
    /\ dash = None
    /\ pc = "new"

NextDash ==
    \/ Generate
    \/ \E uuids \in UuidStreams : Build(uuids)

SpecDash == InitDash /\ [][NextDash]_vars

\* ------------------------------------------------------------------ claims: Executor

ConfigError == [tag |-> "raise", exc |-> "RuntimeError"]

\* C1: a run with OFFLINE_ONLY set and no readable snapshot under the key
\* fails with the configuration error, calls run_sql_query zero times, writes
\* nothing to the cache and registers nothing with the catalog.
C1_OfflineMissFails ==
    [][ (last'.op = "run" /\ settings.OFFLINE_ONLY /\ CacheGet(files, last'.key) = None)
        => /\ last'.ret = ConfigError
           /\ last'.dbCalls = <<>>
           /\ last'.puts = <<>>
           /\ last'.regs = <<>>
           /\ files' = files
           /\ catalog' = catalog ]_vars

C1_Witness ==
    /\ last.op = "run"
    /\ settings.OFFLINE_ONLY
    /\ last.cached = None
    /\ last.ret = ConfigError

\* C2: with a readable snapshot under the key, run returns that snapshot with
\* cache_hit true, mode "cache" and rows its row count, registers its path
\* under the key, and does not call run_sql_query, whatever OFFLINE_ONLY is.
C2_HitReturnsSnapshot ==
    [][ (last'.op = "run" /\ CacheGet(files, last'.key) # None)
        => /\ last'.ret.tag = "return"
           /\ last'.ret.df = CacheGet(files, last'.key)
           /\ last'.ret.meta = [cache_key |-> last'.key, cache_hit |-> TRUE,
                                rows |-> CacheGet(files, last'.key).nrows,
                                mode |-> "cache"]
           /\ last'.regs = <<[name |-> last'.key, path |-> path_for_key(last'.key)]>>
           /\ catalog' = [catalog EXCEPT ![last'.key] = path_for_key(last'.key)]
           /\ last'.dbCalls = <<>>
           /\ files' = files ]_vars

C2_Witness ==
    /\ last.op = "run"
    /\ settings.OFFLINE_ONLY
    /\ last.cached # None
    /\ last.cached.nrows = 2
    /\ last.ret.tag = "return"
    /\ last.ret.meta.mode = "cache"
    /\ catalog[last.key] = path_for_key(last.key)

\* C3: on a miss with OFFLINE_ONLY off, run calls run_sql_query exactly once
\* with the configured timeout and row bound; when it returns, the dataset
\* is stored under the key (a get of the key yields it) and registered, and
\* meta has cache_hit false and mode "db".
C3_MissExecutesAndStores ==
    [][ (last'.op = "run" /\ ~settings.OFFLINE_ONLY /\ CacheGet(files, last'.key) = None)
        => /\ Len(last'.dbCalls) = 1
           /\ last'.dbCalls[1].args =
                  [sql |-> last'.sql, params |-> last'.params,
                   timeout_seconds |-> settings.QUERY_TIMEOUT_SECONDS,
                   max_rows |-> settings.MAX_RETURNED_ROWS]
           /\ last'.ret.tag = "return" =>
                  /\ last'.ret.df = last'.dbCalls[1].outcome
                  /\ CacheGet(files', last'.key) = last'.ret.df
                  /\ catalog'[last'.key] = path_for_key(last'.key)
                  /\ last'.ret.meta = [cache_key |-> last'.key, cache_hit |-> FALSE,
                                       rows |-> last'.ret.df.nrows, mode |-> "db"] ]_vars

C3_Witness ==
    /\ last.op = "run"
    /\ ~settings.OFFLINE_ONLY
    /\ last.cached = None
    /\ last.ret.tag = "return"
    /\ last.ret.meta.mode = "db"
    /\ last.ret.df.nrows = 2
    /\ CacheGet(files, last.key) = last.ret.df

\* C4: when run_sql_query raises, its exception reaches the caller unchanged
\* after exactly one call, and the cache and the catalog are as before.
C4_DbFailurePropagates ==
    [][ (last'.op = "run" /\ last'.dbCalls # <<>> /\ last'.dbCalls[1].outcome.tag = "raise")
        => /\ last'.ret = last'.dbCalls[1].outcome
           /\ Len(last'.dbCalls) = 1
           /\ files' = files
           /\ catalog' = catalog ]_vars

C4_Witness ==
    /\ last.op = "run"
    /\ last.dbCalls # <<>>
    /\ last.ret \in DbErrors
    /\ \E p \in Paths : files[p] # NoFile

\* C7: get on a damaged file returns absent, and a run on such a key does
\* what a run on a key never cached does: with OFFLINE_ONLY off it calls
\* run_sql_query once and overwrites the damaged file with what it returned,
\* with OFFLINE_ONLY on it fails with the configuration error.
C7_DamagedIsMiss ==
    [][ /\ (last'.op = "get" /\ files[path_for_key(last'.key)] = Garbage)
            => last'.ret = [tag |-> "return", value |-> None]
        /\ (last'.op = "run" /\ files[path_for_key(last'.key)] = Garbage)
            => LET never == [files EXCEPT ![path_for_key(last'.key)] = NoFile]
                   out == IF last'.dbCalls = <<>> THEN CHOOSE d \in Datasets : TRUE
                          ELSE last'.dbCalls[1].outcome
                   r == ExecutorRun(settings, never, catalog, last'.sql, last'.params, out)
               IN
               /\ last'.ret = r.ret
               /\ last'.dbCalls = r.dbCalls
               /\ catalog' = r.catalog
               /\ IF settings.OFFLINE_ONLY
                  THEN last'.ret = ConfigError /\ last'.dbCalls = <<>> /\ files' = files
                  ELSE /\ Len(last'.dbCalls) = 1
                       /\ IF out.tag = "raise" THEN files' = files
                          ELSE files' = [files EXCEPT ![path_for_key(last'.key)] =
                                                          ToParquet(out)] ]_vars

C7_Witness ==
    /\ last.op = "run"
    /\ last.damaged
    /\ ~settings.OFFLINE_ONLY
    /\ last.ret.tag = "return"
    /\ files[path_for_key(last.key)] = ToParquet(last.ret.df)

\* ------------------------------------------------------------------ claims: SnapshotCache

C5_WitnessRemoved ==
    /\ last.op = "delete"
    /\ last.ret.value = TRUE
    /\ \E k \in Keys : expect[k] # None

\* ------------------------------------------------------------------ claims: cache key

ItemSet(params) == Range(params)

\* C6: two requests get the same key exactly when they have the same sql and
\* the same set of (name, value) pairs: the insertion order of params does not
\* matter, and a different sql or parameter value gives a different key.
C6_KeyDeterminism ==
    keyA # None =>
        ((reqA.sql = reqB.sql /\ ItemSet(reqA.params) = ItemSet(reqB.params))
            <=> keyA = keyB)

C6_Witness ==
    /\ keyA # None
    /\ reqA.params # reqB.params
    /\ Len(reqA.params) = 2
    /\ ItemSet(reqA.params) = ItemSet(reqB.params)
    /\ keyA = keyB

\* ------------------------------------------------------------------ claims: the agents

HasTemporalCategoricalNumeric(frame) ==
    DateCols(frame) # <<>> /\ CatCols(frame) # <<>> /\ NumericCols(frame) # <<>>

ChartTypesOf(charts) == { charts[i].type : i \in 1..Len(charts) }

\* C8: for every non-empty dataset, temporal columns included, and every
\* plan, generate returns a report and build_dashboard on that report returns
\* a dashboard; with a temporal, a categorical and a numeric column and no
\* visuals in the plan its chart list has a line chart and a bar chart.
C8_AlwaysADashboard ==
    (pc # "new" /\ ~DfEmpty(dataset)) =>
        /\ report.tag = "report"
        /\ pc = "built" =>
            /\ dash.tag = "return"
            /\ (HasTemporalCategoricalNumeric(dataset) /\ queryPlan.visuals = PNone)
                => {<<"line">>, <<"bar">>} \subseteq ChartTypesOf(dash.meta.charts)

\* the entries of plan.visuals, in plan order
PlanVisuals == IF queryPlan.visuals.t = "list" THEN queryPlan.visuals.v ELSE <<>>

NamesColumn(value) == value.t = "str" /\ value.v \in Range(ColumnNames(dataset))

\* an entry that does not survive: no dict, a string x or y naming no column,
\* or a list y without an existing column
Dropped(v) ==
    IF v.t # "dict" THEN TRUE
    ELSE LET x == DictGet(v, <<"x">>)
             y == DictGet(v, <<"y">>)
         IN \/ x.t = "str" /\ ~NamesColumn(x)
            \/ y.t = "str" /\ ~NamesColumn(y)
            \/ y.t = "list" /\ \A i \in 1..Len(y.v) : ~NamesColumn(y.v[i])

Survivors == SelectSeq(PlanVisuals, LAMBDA v : ~Dropped(v))

\* the chart a surviving entry stands for: its type among the known ones or
\* line, its title or "Chart", its x, and its y with the columns that exist
SurvivingChart(v) ==
    LET t == DictGet(v, <<"type">>)
        known == t.t = "str" /\ Strip(Lower(t.v)) \in ChartTypes
        title == DictGet(v, <<"title">>)
        y == DictGet(v, <<"y">>)
    IN [ tag |-> "chart",
         type |-> IF known THEN Strip(Lower(t.v)) ELSE <<"line">>,
         title |-> IF title.t = "str" /\ title.v # <<>> THEN title.v ELSE <<"Chart">>,
         x |-> DictGet(v, <<"x">>),
         y |-> IF y.t = "list" THEN PList(SelectSeq(y.v, NamesColumn)) ELSE y ]

WithoutId(chart) == [f \in DOMAIN chart \ {"id"} |-> chart[f]]

WithoutIds(charts) == [i \in 1..Len(charts) |-> WithoutId(charts[i])]

\* C9: the chart specs are the surviving entries of plan.visuals in plan
\* order and nothing else; an entry naming an absent column is not among
\* them; without a surviving entry they are the auto-detected charts. The
\* returned meta lists the same charts.
C9_ChartSpecList ==
    (pc = "built" /\ ~DfEmpty(dataset)) =>
        \A uuids \in UuidStreams :
            LET built == _build_chart_specs(dataset, queryPlan, uuids) IN
            /\ built.tag = "ok"
            /\ WithoutIds(built.specs) =
                  IF Survivors # <<>>
                  THEN [i \in 1..Len(Survivors) |-> SurvivingChart(Survivors[i])]
                  ELSE WithoutIds(_auto_charts(dataset, uuids))
            /\ dash.tag = "return" =>
                  dash.meta.charts =
                      [i \in 1..Len(built.specs) |->
                          [ title |-> built.specs[i].title, type |-> built.specs[i].type,
                            x |-> built.specs[i].x, y |-> built.specs[i].y ]]

\* a built dashboard whose plan has a dropped entry before a surviving one,
\* for a dataset that auto-detection has charts for
C9_Witness ==
    /\ pc = "built"
    /\ dash.tag = "return"
    /\ "charts" \in DOMAIN dash.meta
    /\ Len(PlanVisuals) = 2
    /\ Dropped(PlanVisuals[1])
    /\ ~Dropped(PlanVisuals[2])
    /\ Len(dash.meta.charts) = 1
    /\ _auto_charts(dataset, <<"0a1b2c3d", "1b2c3d4e", "2c3d4e5f", "3d4e5f6a">>) # <<>>

\* each of & < > " ' replaced by its entity, once
Entity(tok) ==
    CASE tok = "&" -> <<"&", "amp;">>
      [] tok = "<" -> <<"&", "lt;">>
      [] tok = ">" -> <<"&", "gt;">>
      [] tok = "\"" -> <<"&", "quot;">>
      [] tok = "'" -> <<"&", "#39;">>
      [] OTHER -> <<tok>>

EscapedOnce(text) == Concat([i \in 1..Len(text) |-> Entity(text[i])])

\* a text that opens or closes a tag where it is embedded
HasMarkup(text) == \E i \in 1..Len(text) : text[i] \in {"<", ">"}

\* C10: every text of the dataset, the plan or the report that is embedded in
\* the document is escaped exactly once, and none of them puts markup into
\* the document.
C10_NoMarkupFromData ==
    (pc = "built" /\ dash.tag = "return") =>
        \A i \in 1..Len(dash.html) :
            LET part == dash.html[i] IN
            /\ part.kind = "esc" => part.text = EscapedOnce(part.raw)
            /\ part.kind = "json" => ~HasMarkup(part.text)

\* C11: two calls of build_dashboard with the same dataset, plan and report
\* return the same chart specs, ids included, and the same document.
C11_BuildIsPure ==
    [][ (pc = "built" /\ pc' = "built") => dash' = dash ]_vars

\* ------------------------------------------------------------------ claims: InsightAgent

\* C12: for a dataset with zero rows generate returns, whatever the plan
\* (none at all, parts of the wrong type, entries that cannot be read), the
\* canonical empty report: the one "No Data" KPI, no distributions, trends or
\* correlations, and the warnings ["empty_result"].
C12_EmptyReportIsCanonical ==
    (pc # "new" /\ Len(dataset.rows) = 0) =>
        report = [ tag |-> "report",
                   kpis |-> << [ title |-> <<"No Data">>, value |-> <<"0 rows">>,
                                 context |-> <<"Query returned no records">> ] >>,
                   summary |-> <<"No data returned for the query. Adjust filters or table selection.">>,
                   distributions |-> <<>>,
                   trends |-> <<>>,
                   correlations |-> <<>>,
                   warnings |-> << <<"empty_result">> >> ]

\* a report made for a dataset without rows and a plan whose metric has an
\* agg that is no text
C12_Witness ==
    /\ pc = "generated"
    /\ Len(dataset.rows) = 0
    /\ queryPlan # PNone
    /\ queryPlan.metrics.t = "list"
    /\ \E i \in 1..Len(queryPlan.metrics.v) :
          /\ queryPlan.metrics.v[i].t = "dict"
          /\ DictGet(queryPlan.metrics.v[i], <<"agg">>).t = "int"
    /\ report.tag = "report"

\* the entries of plan.metrics, in plan order
PlanMetrics == IF queryPlan.metrics.t = "list" THEN queryPlan.metrics.v ELSE <<>>

NumericColumn(value) == value.t = "str" /\ value.v \in Range(NumericCols(dataset))

HasValue(name) == \E r \in 1..Len(dataset.rows) : ~IsMissing(Series(dataset, name)[r])

\* a metric entry that yields a KPI: a dict with a name that is not blank,
\* over a numeric column (its name, else its field) that has a value
YieldsKpi(m) ==
    /\ m.t = "dict"
    /\ DictGet(m, <<"name">>).t = "str"
    /\ Strip(DictGet(m, <<"name">>).v) # <<>>
    /\ IF NumericColumn(DictGet(m, <<"name">>))
       THEN HasValue(DictGet(m, <<"name">>).v)
       ELSE /\ NumericColumn(DictGet(m, <<"field">>))
            /\ HasValue(DictGet(m, <<"field">>).v)

\* C13: for a non-empty dataset and a plan none of whose metrics yields a
\* KPI, the KPIs of generate are "Rows", then "Columns", then, when there is
\* a numeric column, the Sum and the Avg of the first one.
C13_FallbackKpis ==
    (pc # "new" /\ ~DfEmpty(dataset)
        /\ \A i \in 1..Len(PlanMetrics) : ~YieldsKpi(PlanMetrics[i])) =>
        /\ report.tag = "report"
        /\ report.kpis =
              << [ title |-> <<"Rows">>, value |-> <<Grouped(Len(dataset.rows))>>,
                   context |-> <<"Returned rows">> ],
                 [ title |-> <<"Columns">>, value |-> <<Grouped(Len(dataset.columns))>>,
                   context |-> <<"Returned columns">> ] >>
              \o (IF NumericCols(dataset) = <<>> THEN <<>>
                  ELSE LET col == NumericCols(dataset)[1] IN
                       << [ title |-> <<"Sum(">> \o col \o <<")">>,
                            value |-> _fmt(SeriesSum(Series(dataset, col))),
                            context |-> <<"Total">> ],
                          [ title |-> <<"Avg(">> \o col \o <<")">>,
                            value |-> _fmt(SeriesMean(Series(dataset, col))),
                            context |-> <<"Mean">> ] >>)

\* the plan's metrics whose name is a numeric column of the dataset
NamedColumnMetrics ==
    { i \in 1..Len(PlanMetrics) :
        /\ PlanMetrics[i].t = "dict"
        /\ NumericColumn(DictGet(PlanMetrics[i], <<"name">>)) }

KpisTitled(name) == { i \in 1..Len(report.kpis) : report.kpis[i].title = name }

\* the sum of the values a column has
ColumnTotal(name) == Q(SumInts(DropNa(Series(dataset, name))), 1)

TrendKept ==
    LET t == Series(dataset, DateCols(dataset)[1])
        v == Series(dataset, NumericCols(dataset)[1])
    IN { r \in 1..Len(dataset.rows) : ~IsMissing(t[r]) /\ ~IsMissing(v[r]) }

TrendDates == { Series(dataset, DateCols(dataset)[1])[r].v : r \in TrendKept }

\* the sum of the first numeric column over the kept rows of one date
TrendSum(d) ==
    LET t == Series(dataset, DateCols(dataset)[1])
        v == Series(dataset, NumericCols(dataset)[1])
        rows == SortedInts({ r \in TrendKept : t[r].v = d })
    IN SumInts([i \in 1..Len(rows) |-> v[rows[i]]])

\* C15: with a temporal and a numeric column, generate emits a trend exactly
\* when at least 3 distinct dates remain after dropping the rows without a
\* date or without a value; its points are the sums per date of the first
\* numeric column, ascending by date, the last 60 of them.
C15_TrendAsStated ==
    (pc # "new" /\ ~DfEmpty(dataset) /\ report.tag = "report"
        /\ DateCols(dataset) # <<>> /\ NumericCols(dataset) # <<>>) =>
        LET dates == SortedInts(TrendDates) IN
        IF Len(dates) >= 3
        THEN /\ Len(report.trends) = 1
             /\ report.trends[1].points =
                   LastN([i \in 1..Len(dates) |->
                            [date |-> DateText(dates[i]), value |-> Q(TrendSum(dates[i]), 1)]],
                         60)
        ELSE report.trends = <<>>

\* ------------------------------------------------------------------ claims: auto-detection

\* what a chart shows: its type, its axes and, for a bar, how it aggregates
Shape(chart) == [f \in DOMAIN chart \ {"id", "tag", "title"} |-> chart[f]]

Shapes(charts) == [i \in 1..Len(charts) |-> Shape(charts[i])]

\* the four charts of auto-detection whose condition holds, in their order
FourCharts ==
    LET num == NumericCols(dataset)
        cat == CatCols(dataset)
        date == DateCols(dataset)
    IN (IF date # <<>> /\ num # <<>>
        THEN << [type |-> <<"line">>, x |-> PStr(date[1]), y |-> PStr(num[1])] >>
        ELSE <<>>)
       \o (IF cat # <<>> /\ num # <<>>
           THEN << [type |-> <<"bar">>, x |-> PStr(cat[1]), y |-> PStr(num[1]),
                    aggregate |-> <<"sum">>, top_n |-> 20] >>
           ELSE <<>>)
       \o (IF Len(num) >= 2
           THEN << [type |-> <<"scatter">>, x |-> PStr(num[1]), y |-> PStr(num[2])] >>
           ELSE <<>>)
       \o (IF num # <<>>
           THEN << [type |-> <<"hist">>, x |-> PStr(num[1]), y |-> PNone] >>
           ELSE <<>>)

\* C16: auto-detection returns the line, bar, scatter and histogram charts
\* whose condition holds, in that order; when none does and the dataset has
\* two columns or more, the one line chart over the first two columns; and
\* nothing otherwise. A dashboard built without a surviving plan visual lists
\* these charts.
C16_AutoDetection ==
    (pc = "built" /\ ~DfEmpty(dataset)) =>
        \A uuids \in UuidStreams :
            LET got == _auto_charts(dataset, uuids)
                cols == ColumnNames(dataset)
            IN
            /\ Shapes(got) =
                  IF FourCharts = <<>> /\ Len(cols) >= 2
                  THEN << [type |-> <<"line">>, x |-> PStr(cols[1]), y |-> PStr(cols[2])] >>
                  ELSE FourCharts
            /\ (Survivors = <<>> /\ dash.tag = "return") =>
                  dash.meta.charts =
                      [i \in 1..Len(got) |->
                          [ title |-> got[i].title, type |-> got[i].type,
                            x |-> got[i].x, y |-> got[i].y ]]

\* a dashboard built without plan visuals for a dataset with a text column
\* and two numeric ones: bar, scatter and histogram
C16_Witness ==
    /\ pc = "built"
    /\ dash.tag = "return"
    /\ "charts" \in DOMAIN dash.meta
    /\ Survivors = <<>>
    /\ [i \in 1..Len(dash.meta.charts) |-> dash.meta.charts[i].type]
          = << <<"bar">>, <<"scatter">>, <<"hist">> >>

====
